---- MODULE Spec2Model ----
(***************************************************************************)
(* Model of code_review.py: the numbering of a unified diff shown to the   *)
(* language model (review_code_with_llm), the resolution of a new-file     *)
(* line number to a diff position (get_position_in_diff), the posting of   *)
(* comments (post_comments, driven by main) and the token-bounded chunking *)
(* of a text (split_diff_into_chunks).                                     *)
(*                                                                         *)
(* Texts are sequences of one-character strings; a line break is the       *)
(* character NL.  None (-1) stands for Python's None where the value is    *)
(* otherwise a positive integer.                                           *)
(***************************************************************************)
EXTENDS Integers, Sequences, FiniteSets, TLC

VARIABLES diff_content, numbered_diff, resolved,
          pc, diffs_by_file, all_comments, sink, log,
          text, max_tokens, chunks,
          requests, all_feedback,
          call_input, called_functions,
          cache, walks, looked_up,
          source_tree, function_definitions

vars == <<diff_content, numbered_diff, resolved,
          pc, diffs_by_file, all_comments, sink, log,
          text, max_tokens, chunks,
          requests, all_feedback,
          call_input, called_functions,
          cache, walks, looked_up,
          source_tree, function_definitions>>

fileVars == <<diff_content, numbered_diff, resolved>>
runVars == <<pc, diffs_by_file, all_comments, sink, log>>
chunkVars == <<text, max_tokens, chunks>>
requestVars == <<requests, all_feedback>>
callVars == <<call_input, called_functions>>
cacheVars == <<cache, walks, looked_up>>
treeVars == <<source_tree, function_definitions>>

\* ---------------------------------------------------------------- bounds
MaxDiffLines == 4
MaxTarget == 3
MaxFiles == 2
MaxComments == 2
MaxTextLen == 5
MaxTokens == 3
MaxCallLen == 5
MaxBytesLen == 3
ExtraKeys == 2
MaxTreeFiles == 2
MaxDefs == 1

\* ------------------------------------------------------ program constants
FUNCTION_DEF_TOKEN_LIMIT == 2000
CACHE_SIZE == 128

\* ------------------------------------------------------- text primitives
NL == "\n"
None == -1
NoMatch == -1

Digit == {"0", "1", "2", "3", "4", "5", "6", "7", "8", "9"}

DigitValue(c) ==
    CASE c = "0" -> 0 [] c = "1" -> 1 [] c = "2" -> 2 [] c = "3" -> 3
      [] c = "4" -> 4 [] c = "5" -> 5 [] c = "6" -> 6 [] c = "7" -> 7
      [] c = "8" -> 8 [] c = "9" -> 9

DigitChar(d) ==
    CASE d = 0 -> "0" [] d = 1 -> "1" [] d = 2 -> "2" [] d = 3 -> "3"
      [] d = 4 -> "4" [] d = 5 -> "5" [] d = 6 -> "6" [] d = 7 -> "7"
      [] d = 8 -> "8" [] d = 9 -> "9"

\* str.startswith
StartsWith(s, prefix) ==
    /\ Len(s) >= Len(prefix)
    /\ SubSeq(s, 1, Len(prefix)) = prefix

\* str.split("\n"): always at least one piece
RECURSIVE SplitLines(_)
SplitLines(s) ==
    IF \A i \in 1..Len(s) : s[i] # NL
    THEN <<s>>
    ELSE LET k == CHOOSE i \in 1..Len(s) :
                      /\ s[i] = NL
                      /\ \A j \in 1..(i - 1) : s[j] # NL
         IN  <<SubSeq(s, 1, k - 1)>> \o SplitLines(SubSeq(s, k + 1, Len(s)))

\* "\n".join(lines)
RECURSIVE JoinLines(_)
JoinLines(ls) ==
    IF Len(ls) = 0 THEN <<>>
    ELSE IF Len(ls) = 1 THEN ls[1]
    ELSE ls[1] \o <<NL>> \o JoinLines(Tail(ls))

\* int(...) of a run of decimal digits
RECURSIVE ParseInt(_)
ParseInt(ds) ==
    IF Len(ds) = 0 THEN 0
    ELSE 10 * ParseInt(SubSeq(ds, 1, Len(ds) - 1)) + DigitValue(ds[Len(ds)])

\* the longest run of digits of s that starts at index i
RECURSIVE DigitRun(_, _)
DigitRun(s, i) ==
    IF i > Len(s) \/ s[i] \notin Digit THEN <<>>
    ELSE <<s[i]>> \o DigitRun(s, i + 1)

\* re.search(r"\+(\d+)", line): int(group(1)) of the leftmost match
SearchPlusDigits(line) ==
    LET hits == {i \in 1..(Len(line) - 1) :
                     line[i] = "+" /\ line[i + 1] \in Digit}
    IN  IF hits = {} THEN NoMatch
        ELSE LET k == CHOOSE i \in hits : \A j \in hits : i <= j
             IN  ParseInt(DigitRun(line, k + 1))

\* str(n) for n >= 0
RECURSIVE DecimalDigits(_)
DecimalDigits(n) ==
    IF n < 10 THEN <<DigitChar(n)>>
    ELSE DecimalDigits(n \div 10) \o <<DigitChar(n % 10)>>

RECURSIVE Spaces(_)
Spaces(k) == IF k <= 0 THEN <<>> ELSE <<" ">> \o Spaces(k - 1)

\* f"{n:4d}": decimal, right-aligned in a field of at least four columns
Format4d(n) ==
    LET ds == IF n < 0 THEN <<"-">> \o DecimalDigits(0 - n)
              ELSE DecimalDigits(n)
    IN  Spaces(4 - Len(ds)) \o ds

\* ------------------------------------------------------- diff line kinds
HunkHeader1 == <<"@", "@", " ", "-", "1", " ", "+", "1", " ", "@", "@">>
HunkHeader3 == <<"@", "@", " ", "-", "3", " ", "+", "3", " ", "@", "@">>
BadHeader == <<"@", "@">>
AddedLine == <<"+", "a">>
RemovedLine == <<"-", "a">>
ContextLine == <<" ", "a">>
EmptyLine == <<>>

LineSet == {HunkHeader1, HunkHeader3, BadHeader, AddedLine, RemovedLine,
            ContextLine, EmptyLine}

\* the raw diff texts of one file, of at most MaxDiffLines lines
DiffTexts ==
    {JoinLines(ls) : ls \in UNION {[1..n -> LineSet] : n \in 0..MaxDiffLines}}

IsHeaderLine(line) == StartsWith(line, <<"@", "@">>)
IsAdded(line) == ~IsHeaderLine(line) /\ StartsWith(line, <<"+">>)
IsRemoved(line) == ~IsHeaderLine(line) /\ StartsWith(line, <<"-">>)
IsContext(line) == ~IsHeaderLine(line) /\ ~IsAdded(line) /\ ~IsRemoved(line)
IsValidHeader(line) == IsHeaderLine(line) /\ SearchPlusDigits(line) # NoMatch

\* ------------------------------------------- review_code_with_llm numbering
\* NumberStep with a Removed line advancing the counter
NumberStepCountsRemoved(st, line) ==
    IF StartsWith(line, <<"@", "@">>) THEN
        LET m == SearchPlusDigits(line) IN
        [current_line |-> IF m # NoMatch THEN m - 1 ELSE st.current_line,
         numbered_diff |-> Append(st.numbered_diff, line)]
    ELSE IF StartsWith(line, <<"-">>) THEN
        [current_line |-> st.current_line + 1,
         numbered_diff |-> Append(st.numbered_diff, line)]
    ELSE
        [current_line |-> st.current_line + 1,
         numbered_diff |-> Append(st.numbered_diff,
              Format4d(st.current_line + 1) \o <<" ", "|", " ">> \o line)]

\* one iteration of the numbering loop: st = [current_line, numbered_diff]
NumberStep(st, line) ==
    IF StartsWith(line, <<"@", "@">>) THEN
        LET m == SearchPlusDigits(line) IN
        [current_line |-> IF m # NoMatch THEN m - 1 ELSE st.current_line,
         numbered_diff |-> Append(st.numbered_diff, line)]
    ELSE IF StartsWith(line, <<"+">>) THEN
        [current_line |-> st.current_line + 1,
         numbered_diff |-> Append(st.numbered_diff,
              Format4d(st.current_line + 1) \o <<" ", "|", " ">> \o line)]
    ELSE IF StartsWith(line, <<"-">>) THEN
        [current_line |-> st.current_line,
         numbered_diff |-> Append(st.numbered_diff, line)]
    ELSE
        [current_line |-> st.current_line + 1,
         numbered_diff |-> Append(st.numbered_diff,
              Format4d(st.current_line + 1) \o <<" ", "|", " ">> \o line)]

\* NumberLoop with the counter starting at 1 instead of 0
RECURSIVE NumberLoopFromOne(_, _)
NumberLoopFromOne(lines, i) ==
    IF i = 0 THEN [current_line |-> 1, numbered_diff |-> <<>>]
    ELSE NumberStep(NumberLoopFromOne(lines, i - 1), lines[i])

\* the loop state after the first i lines
RECURSIVE NumberLoop(_, _)
NumberLoop(lines, i) ==
    IF i = 0 THEN [current_line |-> 0, numbered_diff |-> <<>>]
    ELSE NumberStep(NumberLoop(lines, i - 1), lines[i])

\* the list numbered_diff built for a diff text
NumberDiff(diff) ==
    LET lines == SplitLines(diff)
    IN  NumberLoop(lines, Len(lines)).numbered_diff

\* ---------------------------------------------------- get_position_in_diff
\* one iteration of the loop.  st = [has_line, current_line,
\* current_position, done, raised, position, index]; has_line = FALSE is
\* current_line = None, and None + 1 raises TypeError.
PositionStep(st, line, i, target_line) ==
    IF StartsWith(line, <<"@", "@">>) THEN
        LET m == SearchPlusDigits(line) IN
        IF m # NoMatch
        THEN [st EXCEPT !.has_line = TRUE, !.current_line = m - 1,
                        !.current_position = 0]
        ELSE st
    ELSE IF StartsWith(line, <<"+">>) THEN
        IF ~st.has_line
        THEN [st EXCEPT !.current_position = @ + 1, !.done = TRUE,
                        !.raised = TRUE]
        ELSE IF st.current_line + 1 = target_line
        THEN [st EXCEPT !.current_position = @ + 1, !.current_line = @ + 1,
                        !.done = TRUE, !.position = st.current_position + 1,
                        !.index = i]
        ELSE [st EXCEPT !.current_position = @ + 1, !.current_line = @ + 1]
    ELSE IF StartsWith(line, <<"-">>) THEN
        [st EXCEPT !.current_position = @ + 1]
    ELSE
        IF ~st.has_line
        THEN [st EXCEPT !.current_position = @ + 1, !.done = TRUE,
                        !.raised = TRUE]
        ELSE [st EXCEPT !.current_position = @ + 1, !.current_line = @ + 1]

RECURSIVE PositionLoop(_, _, _)
PositionLoop(lines, i, target_line) ==
    IF i = 0
    THEN [has_line |-> FALSE, current_line |-> 0, current_position |-> 0,
          done |-> FALSE, raised |-> FALSE, position |-> None, index |-> 0]
    ELSE LET st == PositionLoop(lines, i - 1, target_line)
         IN  IF st.done THEN st
             ELSE PositionStep(st, lines[i], i, target_line)

\* the outcome of get_position_in_diff(diff, target_line), the state the
\* loop ends in: raised, or the returned position (None when absent) and
\* the index of the matched line
GetPositionInDiff(diff, target_line) ==
    LET lines == SplitLines(diff)
    IN  PositionLoop(lines, Len(lines), target_line)

\* ------------------------------------------------------------ post_comments
\* NoDiff: diffs.get(filename) is None
NoDiff == <<"<", "n", "o", "n", "e", ">">>

\* diffs.get(filename)
DictGet(diffs, filename) ==
    IF filename \in DOMAIN diffs THEN diffs[filename] ELSE NoDiff

\* PostOne sending an unresolved comment at a guessed position (its line)
PostOneGuessing(acc, comment, diffs, sink_fails) ==
    IF acc.raised THEN acc
    ELSE
    LET file_diff == DictGet(diffs, comment.filename) IN
    IF file_diff = NoDiff \/ file_diff = <<>> THEN
        [acc EXCEPT !.log = Append(@, [comment |-> comment,
                                       outcome |-> "no_diff"])]
    ELSE
    LET r == GetPositionInDiff(file_diff, comment.line) IN
    IF r.raised THEN
        [acc EXCEPT !.raised = TRUE,
                    !.log = Append(@, [comment |-> comment,
                                       outcome |-> "raised"])]
    ELSE
        [acc EXCEPT
            !.sink = Append(@, [path |-> comment.filename,
                                position |-> IF r.position = None
                                             THEN comment.line
                                             ELSE r.position,
                                line |-> comment.line]),
            !.log = Append(@, [comment |-> comment,
                               outcome |-> IF sink_fails THEN "sink_error"
                                           ELSE "sent"])]

\* one iteration of the loop over the comments.  acc = [sink, log, raised]:
\* the requests made to create_review_comment, the outcome of each comment
\* processed, and whether an exception left the loop.
PostOne(acc, comment, diffs, sink_fails) ==
    IF acc.raised THEN acc
    ELSE
    LET file_diff == DictGet(diffs, comment.filename) IN
    IF file_diff = NoDiff \/ file_diff = <<>> THEN
        [acc EXCEPT !.log = Append(@, [comment |-> comment,
                                       outcome |-> "no_diff"])]
    ELSE
    LET r == GetPositionInDiff(file_diff, comment.line) IN
    IF r.raised THEN
        [acc EXCEPT !.raised = TRUE,
                    !.log = Append(@, [comment |-> comment,
                                       outcome |-> "raised"])]
    ELSE IF r.position = None THEN
        [acc EXCEPT !.log = Append(@, [comment |-> comment,
                                       outcome |-> "absent"])]
    ELSE
        [acc EXCEPT
            !.sink = Append(@, [path |-> comment.filename,
                                position |-> r.position,
                                line |-> comment.line]),
            !.log = Append(@, [comment |-> comment,
                               outcome |-> IF sink_fails THEN "sink_error"
                                           ELSE "sent"])]

\* the loop over the first i comments; fails[k] tells whether the sink
\* answers the request for comment k with an error
RECURSIVE PostLoop(_, _, _, _)
PostLoop(comments, diffs, fails, i) ==
    IF i = 0 THEN [sink |-> <<>>, log |-> <<>>, raised |-> FALSE]
    ELSE PostOne(PostLoop(comments, diffs, fails, i - 1), comments[i],
                 diffs, fails[i])

\* ---------------------------------------------------- num_tokens_from_string
\* The texts to be chunked are made of W, a word piece that the encoding
\* turns into one token, and NL.  The encoding splits a text into runs of
\* word pieces and runs of line breaks; a run of line breaks is one token.
W == "w"

\* len(encoding.encode(string))
NumTokens(string) ==
    Cardinality({i \in 1..Len(string) : string[i] = W})
    + Cardinality({i \in 1..Len(string) :
                      /\ string[i] = NL
                      /\ (i = 1 \/ string[i - 1] # NL)})

\* ---------------------------------------------------- split_diff_into_chunks
\* ChunkStep starting the next chunk with the bare line, without "\n"
ChunkStepNoBreak(st, line, limit) ==
    IF NumTokens(st.current_chunk \o line) > limit
    THEN [chunks |-> Append(st.chunks, st.current_chunk),
          current_chunk |-> line]
    ELSE [chunks |-> st.chunks,
          current_chunk |-> st.current_chunk \o line \o <<NL>>]

\* one iteration of the loop over the lines: st = [chunks, current_chunk]
ChunkStep(st, line, limit) ==
    IF NumTokens(st.current_chunk \o line) > limit
    THEN [chunks |-> Append(st.chunks, st.current_chunk),
          current_chunk |-> line \o <<NL>>]
    ELSE [chunks |-> st.chunks,
          current_chunk |-> st.current_chunk \o line \o <<NL>>]

RECURSIVE ChunkLoop(_, _, _)
ChunkLoop(lines, i, limit) ==
    IF i = 0 THEN [chunks |-> <<>>, current_chunk |-> <<>>]
    ELSE ChunkStep(ChunkLoop(lines, i - 1, limit), lines[i], limit)

\* split_diff_into_chunks(diff_content, max_tokens)
SplitDiffIntoChunks(diff, limit) ==
    LET lines == SplitLines(diff)
        st == ChunkLoop(lines, Len(lines), limit)
    IN  Append(st.chunks, st.current_chunk)

\* ------------------------------------- review_code_with_llm: the requests
\* the loop over the chunks only builds the prompt; after the first i
\* chunks the variable prompt holds the prompt of chunk i
RECURSIVE PromptLoop(_, _)
PromptLoop(diff_chunks, i) ==
    IF i <= 1
    THEN [chunk_index |-> 1, n_chunks |-> Len(diff_chunks),
          diff_chunk |-> diff_chunks[1]]
    ELSE [PromptLoop(diff_chunks, i - 1) EXCEPT
              !.chunk_index = i, !.diff_chunk = diff_chunks[i]]

\* the requests posted to the completion service for a numbered diff: the
\* post follows the loop, so it is made once, with the prompt left by the
\* last iteration
PostedRequests(numbered_diff_content, limit) ==
    LET diff_chunks == SplitDiffIntoChunks(numbered_diff_content, limit)
    IN  <<PromptLoop(diff_chunks, Len(diff_chunks))>>

\* all_feedback: the response of each request whose body parses as JSON
RECURSIVE CollectFeedback(_, _)
CollectFeedback(posted, parses) ==
    IF Len(posted) = 0 THEN <<>>
    ELSE LET rest == CollectFeedback(SubSeq(posted, 1, Len(posted) - 1),
                                     parses)
         IN  IF parses[Len(posted)]
             THEN Append(rest, [chunk_index |-> posted[Len(posted)].chunk_index])
             ELSE rest

\* ----------------------------------------------------- get_called_functions
\* \w and \s of the pattern, over the characters the inputs are made of
WordChars == {"f", "g", "_"} \cup Digit
SpaceChars == {" ", "\t", "\r"}

\* re.match of (\w+)\s*\( at index p of the line: the pairs <<k, m>> with
\* line[p..k] word characters, line[k+1..m] white space and line[m+1] = "("
CallMatches(line, p) ==
    {km \in (p..Len(line)) \X (p..Len(line)) :
        /\ km[1] <= km[2]
        /\ km[2] < Len(line)
        /\ \A j \in p..km[1] : line[j] \in WordChars
        /\ \A j \in (km[1] + 1)..km[2] : line[j] \in SpaceChars
        /\ line[km[2] + 1] = "("}

\* re.findall(r"(\w+)\s*\(", line) from index p on: the leftmost match is
\* taken, \w+ and \s* as long as they can be, and the search goes on
\* behind the match
RECURSIVE FindAllCalls(_, _)
FindAllCalls(line, p) ==
    IF p > Len(line) THEN {}
    ELSE LET ms == CallMatches(line, p) IN
         IF ms = {} THEN FindAllCalls(line, p + 1)
         ELSE LET km == CHOOSE x \in ms :
                            \A y \in ms : \/ y[1] < x[1]
                                          \/ (y[1] = x[1] /\ y[2] <= x[2])
              IN  {SubSeq(line, p, km[1])} \cup FindAllCalls(line, km[2] + 2)

\* CallsOfLine searching every line, whatever it starts with
CallsOfAnyLine(line) == FindAllCalls(line, 1)

\* the body of the loop over the lines
CallsOfLine(line) ==
    IF StartsWith(line, <<"+">>) THEN FindAllCalls(line, 1) ELSE {}

\* get_called_functions(diff_content).  None has no split (AttributeError)
\* and bytes.split("\n") raises TypeError.
GetCalledFunctions(input) ==
    IF input.kind # "str"
    THEN [raised |-> TRUE, names |-> {}]
    ELSE LET lines == SplitLines(input.data)
         IN  [raised |-> FALSE,
              names |-> UNION {CallsOfLine(lines[i]) : i \in 1..Len(lines)}]

\* ------------------------------------------------ get_function_definitions
\* A source file is its extension and the definitions it holds in the order
\* the extractor meets them.  A definition is its name, the token count of
\* its whole text, and the token count of its text up to its first blank
\* line (the same count when it holds no blank line).  A file that cannot
\* be read or parsed contributes nothing, like a file without a match.
RECURSIVE FirstNamed(_, _, _)
FirstNamed(defs, function_name, j) ==
    IF j > Len(defs) THEN None
    ELSE IF defs[j].name = function_name THEN j
    ELSE FirstNamed(defs, function_name, j + 1)

\* ast.get_source_segment gives the whole text of the first matching node
ExtractPythonFunctionDef(defs, function_name, file) ==
    LET j == FirstNamed(defs, function_name, 1) IN
    IF j = None THEN <<>>
    ELSE IF defs[j].tokens <= FUNCTION_DEF_TOKEN_LIMIT
    THEN <<[file |-> file, def |-> j, tokens |-> defs[j].tokens]>>
    ELSE <<>>

\* func_def runs from the first match to the next empty line
ExtractFunctionDefRegex(defs, function_name, file) ==
    LET j == FirstNamed(defs, function_name, 1) IN
    IF j = None THEN <<>>
    ELSE IF defs[j].head_tokens <= FUNCTION_DEF_TOKEN_LIMIT
    THEN <<[file |-> file, def |-> j, tokens |-> defs[j].head_tokens]>>
    ELSE <<>>

\* the walk over the tree: every file with the extension is searched and
\* what the extractors return is joined in walk order
RECURSIVE WalkTree(_, _, _, _)
WalkTree(tree, file_extension, function_name, i) ==
    IF i > Len(tree) THEN <<>>
    ELSE (IF tree[i].extension # file_extension THEN <<>>
          ELSE IF file_extension = ".py"
          THEN ExtractPythonFunctionDef(tree[i].defs, function_name, i)
          ELSE ExtractFunctionDefRegex(tree[i].defs, function_name, i))
         \o WalkTree(tree, file_extension, function_name, i + 1)

GetFunctionDefinitions(tree, file_extension, function_name) ==
    WalkTree(tree, file_extension, function_name, 1)

\* ------------------------------------- lru_cache on get_function_definitions
\* The cache is the list of the keys it holds, least recently used first.
\* A key stands for one (repo_path, file_extension, function_name) triple.
\* A hit moves the key to the end; a miss runs the function, which walks
\* the tree, stores the key and, when the cache is full, drops the first.
CacheLookup(keys, key) ==
    IF \E i \in 1..Len(keys) : keys[i] = key
    THEN [hit |-> TRUE,
          keys |-> SelectSeq(keys, LAMBDA k : k # key) \o <<key>>]
    ELSE [hit |-> FALSE,
          keys |-> IF Len(keys) >= CACHE_SIZE
                   THEN Tail(keys) \o <<key>>
                   ELSE keys \o <<key>>]

\* the number a displayed line of the numbered diff carries: the decimal
\* number in front of " | ", None for a line emitted without a number
ShownNumber(entry) ==
    LET lead == CHOOSE k \in 0..Len(entry) :
                    /\ \A j \in 1..k : entry[j] = " "
                    /\ (k = Len(entry) \/ entry[k + 1] # " ")
        ds == DigitRun(entry, lead + 1)
        rest == lead + Len(ds)
    IN  IF /\ Len(ds) > 0
           /\ Len(entry) >= rest + 3
           /\ SubSeq(entry, rest + 1, rest + 3) = <<" ", "|", " ">>
        THEN ParseInt(ds)
        ELSE None

\* ------------------------------------------------------------ initial state
NotResolved ==
    [called |-> FALSE, target |-> 0, raised |-> FALSE, position |-> None,
     index |-> 0]

FileIdle ==
    /\ diff_content = <<>>
    /\ numbered_diff = <<>>
    /\ resolved = NotResolved

RunIdle ==
    /\ pc = "idle"
    /\ diffs_by_file = <<>>
    /\ all_comments = <<>>
    /\ sink = <<>>
    /\ log = <<>>

ChunkIdle ==
    /\ text = <<>>
    /\ max_tokens = 0
    /\ chunks = <<>>

RequestIdle ==
    /\ requests = <<>>
    /\ all_feedback = <<>>

CallIdle ==
    /\ call_input = [kind |-> "str", data |-> <<>>]
    /\ called_functions = [called |-> FALSE, raised |-> FALSE, names |-> {}]

CacheIdle ==
    /\ cache = <<>>
    /\ walks = 0
    /\ looked_up = 0

TreeIdle ==
    /\ source_tree = <<>>
    /\ function_definitions = [called |-> FALSE, extension |-> "",
                                name |-> "", parts |-> <<>>]

\* ------------------------------------------- one file: number and resolve
\* a diff text of one file, before either function is applied to it
InitFile ==
    /\ diff_content \in DiffTexts
    /\ numbered_diff = <<>>
    /\ resolved = NotResolved
    /\ RunIdle
    /\ ChunkIdle
    /\ RequestIdle
    /\ CallIdle
    /\ CacheIdle
    /\ TreeIdle

\* review_code_with_llm builds the numbered diff of the file
ReviewCodeWithLlm ==
    /\ pc = "idle"
    /\ numbered_diff' = NumberDiff(diff_content)
    /\ UNCHANGED <<diff_content, resolved>>
    /\ UNCHANGED runVars
    /\ UNCHANGED chunkVars
    /\ UNCHANGED <<requestVars, callVars, cacheVars, treeVars>>

\* get_position_in_diff(diff_content, target_line)
CallGetPositionInDiff ==
    /\ pc = "idle"
    /\ \E target_line \in 1..MaxTarget :
       \E r \in {GetPositionInDiff(diff_content, target_line)} :
          resolved' = [called |-> TRUE, target |-> target_line,
                       raised |-> r.raised, position |-> r.position,
                       index |-> r.index]
    /\ UNCHANGED <<diff_content, numbered_diff>>
    /\ UNCHANGED runVars
    /\ UNCHANGED chunkVars
    /\ UNCHANGED <<requestVars, callVars, cacheVars, treeVars>>

NextFile == ReviewCodeWithLlm \/ CallGetPositionInDiff

SpecFile == InitFile /\ [][NextFile]_vars

\* ------------------------------------------------------- one review run
FileNames == <<"a.rs", "b.rs", "c.rs", "d.rs">>

\* the diffs a changed file may come with: empty, without a hunk header,
\* one hunk with a Context and an Added line, a hunk starting at line 3
\* with a Removed line, and two hunks
RunDiffs ==
    {<<>>,
     JoinLines(<<AddedLine>>),
     JoinLines(<<HunkHeader1, ContextLine, AddedLine>>),
     JoinLines(<<HunkHeader3, RemovedLine, AddedLine, EmptyLine>>),
     JoinLines(<<HunkHeader1, AddedLine, HunkHeader3, AddedLine>>)}

\* the comment lists the model's responses for one file may amount to
CommentLines(room) ==
    UNION {[1..n -> 1..MaxTarget] : n \in 0..room}

Init ==
    /\ pc = "review"
    /\ diffs_by_file = <<>>
    /\ all_comments = <<>>
    /\ sink = <<>>
    /\ log = <<>>
    /\ FileIdle
    /\ ChunkIdle
    /\ RequestIdle
    /\ CallIdle
    /\ CacheIdle
    /\ TreeIdle

\* one iteration of main's loop over the changed files: the diff is kept,
\* numbered for the model, and the comments of the responses are collected
MainReviewFile ==
    /\ pc = "review"
    /\ Cardinality(DOMAIN diffs_by_file) < MaxFiles
    /\ LET filename == FileNames[Cardinality(DOMAIN diffs_by_file) + 1] IN
       \E diff \in RunDiffs :
       \E ls \in CommentLines(MaxComments - Len(all_comments)) :
          /\ diff_content' = diff
          /\ diffs_by_file' = (filename :> diff) @@ diffs_by_file
          /\ numbered_diff' = NumberDiff(diff)
          /\ all_comments' = all_comments \o
                [k \in 1..Len(ls) |-> [filename |-> filename, line |-> ls[k]]]
    /\ UNCHANGED <<pc, resolved, sink, log>>
    /\ UNCHANGED chunkVars
    /\ UNCHANGED <<requestVars, callVars, cacheVars, treeVars>>

\* main calls post_comments once the files are reviewed; an exception that
\* leaves post_comments ends main with exit status 1
MainPostComments ==
    /\ pc = "review"
    /\ \E fails \in [1..Len(all_comments) -> BOOLEAN] :
       \E r \in {PostLoop(all_comments, diffs_by_file, fails,
                          Len(all_comments))} :
          /\ sink' = r.sink
          /\ log' = r.log
          /\ pc' = IF r.raised THEN "failed" ELSE "done"
    /\ UNCHANGED <<diffs_by_file, all_comments>>
    /\ UNCHANGED fileVars
    /\ UNCHANGED chunkVars
    /\ UNCHANGED <<requestVars, callVars, cacheVars, treeVars>>

Next == MainReviewFile \/ MainPostComments

Spec == Init /\ [][Next]_vars

\* ------------------------------------------------------- chunking a text
Texts == UNION {[1..n -> {W, NL}] : n \in 0..MaxTextLen}

InitChunk ==
    /\ text \in Texts
    /\ max_tokens \in 0..MaxTokens
    /\ chunks = <<>>
    /\ FileIdle
    /\ RunIdle
    /\ RequestIdle
    /\ CallIdle
    /\ CacheIdle
    /\ TreeIdle

\* split_diff_into_chunks(text, max_tokens)
CallSplitDiffIntoChunks ==
    /\ pc = "idle"
    /\ chunks' = SplitDiffIntoChunks(text, max_tokens)
    /\ UNCHANGED <<text, max_tokens>>
    /\ UNCHANGED fileVars
    /\ UNCHANGED runVars
    /\ UNCHANGED <<requestVars, callVars, cacheVars, treeVars>>

\* review_code_with_llm from the numbered diff on: text is the numbered
\* diff content and max_tokens the MAX_TOKEN_COUNT of the environment
ReviewChunks ==
    /\ pc = "idle"
    /\ \E posted \in {PostedRequests(text, max_tokens)} :
       \E parses \in [1..Len(posted) -> BOOLEAN] :
          /\ chunks' = SplitDiffIntoChunks(text, max_tokens)
          /\ requests' = posted
          /\ all_feedback' = CollectFeedback(posted, parses)
    /\ UNCHANGED <<text, max_tokens>>
    /\ UNCHANGED fileVars
    /\ UNCHANGED runVars
    /\ UNCHANGED <<callVars, cacheVars, treeVars>>

NextChunk == CallSplitDiffIntoChunks \/ ReviewChunks

SpecChunk == InitChunk /\ [][NextChunk]_vars

\* ------------------------------------------------- the called functions
CallChars == {"+", "-", "f", "g", " ", "(", NL}

\* the byte values of "+", "f", "(" and a byte no UTF-8 text contains
CallBytes == {43, 102, 40, 255}

CallInputs ==
    {[kind |-> "none", data |-> <<>>]}
    \cup {[kind |-> "str", data |-> d] :
             d \in UNION {[1..n -> CallChars] : n \in 0..MaxCallLen}}
    \cup {[kind |-> "bytes", data |-> d] :
             d \in UNION {[1..n -> CallBytes] : n \in 0..MaxBytesLen}}

InitCalls ==
    /\ call_input \in CallInputs
    /\ called_functions = [called |-> FALSE, raised |-> FALSE, names |-> {}]
    /\ FileIdle
    /\ RunIdle
    /\ ChunkIdle
    /\ RequestIdle
    /\ CacheIdle
    /\ TreeIdle

\* get_called_functions(call_input)
CallGetCalledFunctions ==
    /\ pc = "idle"
    /\ \E r \in {GetCalledFunctions(call_input)} :
          called_functions' = [called |-> TRUE, raised |-> r.raised,
                               names |-> r.names]
    /\ UNCHANGED call_input
    /\ UNCHANGED fileVars
    /\ UNCHANGED runVars
    /\ UNCHANGED chunkVars
    /\ UNCHANGED <<requestVars, cacheVars, treeVars>>

NextCalls == CallGetCalledFunctions

SpecCalls == InitCalls /\ [][NextCalls]_vars

\* ------------------------------------------- the cache of one review run
\* the number of distinct keys a run looks up
MaxKeys == CACHE_SIZE + ExtraKeys

InitCache ==
    /\ cache = <<>>
    /\ walks = 0
    /\ looked_up = 0
    /\ FileIdle
    /\ RunIdle
    /\ ChunkIdle
    /\ RequestIdle
    /\ CallIdle
    /\ TreeIdle

\* main looks up a definition: of the first key of the run again, of the
\* latest key again, or of a key not looked up before.  Keys are numbered
\* in the order of their first lookup.
LookupFunctionDefinitions ==
    /\ pc = "idle"
    /\ \E key \in {1, looked_up, looked_up + 1} :
          /\ key >= 1
          /\ key <= MaxKeys
          /\ \E r \in {CacheLookup(cache, key)} :
                /\ cache' = r.keys
                /\ walks' = IF r.hit THEN walks ELSE walks + 1
                /\ looked_up' = IF key > looked_up THEN key ELSE looked_up
    /\ UNCHANGED fileVars
    /\ UNCHANGED runVars
    /\ UNCHANGED chunkVars
    /\ UNCHANGED <<requestVars, callVars, treeVars>>

NextCache == LookupFunctionDefinitions

SpecCache == InitCache /\ [][NextCache]_vars

\* --------------------------------------------- definitions of one lookup
Extensions == {".py", ".js"}
DefNames == {"f", "g"}
TokenCounts == {FUNCTION_DEF_TOKEN_LIMIT, FUNCTION_DEF_TOKEN_LIMIT + 1}
Defs ==
    {d \in [name : DefNames, tokens : TokenCounts, head_tokens : TokenCounts] :
        d.head_tokens <= d.tokens}
DefLists == UNION {[1..n -> Defs] : n \in 0..MaxDefs}
SourceFiles == [extension : Extensions, defs : DefLists]
SourceTrees == UNION {[1..n -> SourceFiles] : n \in 0..MaxTreeFiles}

InitDefs ==
    /\ source_tree \in SourceTrees
    /\ function_definitions =
          [called |-> FALSE, extension |-> "", name |-> "", parts |-> <<>>]
    /\ FileIdle
    /\ RunIdle
    /\ ChunkIdle
    /\ RequestIdle
    /\ CallIdle
    /\ CacheIdle

CallGetFunctionDefinitions ==
    /\ pc = "idle"
    /\ ~function_definitions.called
    /\ \E file_extension \in Extensions, function_name \in DefNames :
          function_definitions' =
             [called |-> TRUE,
              extension |-> file_extension,
              name |-> function_name,
              parts |-> GetFunctionDefinitions(source_tree, file_extension,
                                               function_name)]
    /\ UNCHANGED source_tree
    /\ UNCHANGED fileVars
    /\ UNCHANGED runVars
    /\ UNCHANGED chunkVars
    /\ UNCHANGED <<requestVars, callVars, cacheVars>>

NextDefs == CallGetFunctionDefinitions

SpecDefs == InitDefs /\ [][NextDefs]_vars

\* ------------------------------------------------- reference definitions
DiffLines == SplitLines(diff_content)

IsNumberedKind(line) == IsAdded(line) \/ IsContext(line)

\* index of the last valid hunk header strictly before line i, 0 if none
HunkHeaderBefore(lines, i) ==
    LET hs == {h \in 1..(i - 1) : IsValidHeader(lines[h])}
    IN  IF hs = {} THEN 0 ELSE CHOOSE h \in hs : \A g \in hs : g <= h

\* the new-file line number of the Added or Context line i of a hunk
NewFileLine(lines, i) ==
    LET h == HunkHeaderBefore(lines, i)
        base == IF h = 0 THEN 0 ELSE SearchPlusDigits(lines[h]) - 1
    IN  base + Cardinality({j \in (h + 1)..i : IsNumberedKind(lines[j])})

\* the lines whose new-file line number is n
LinesNumbered(lines, n) ==
    {i \in 1..Len(lines) : IsNumberedKind(lines[i]) /\ NewFileLine(lines, i) = n}

\* the 1-based count of non-header diff lines up to and including line i
OrdinalInFile(lines, i) ==
    Cardinality({j \in 1..i : ~IsHeaderLine(lines[j])})

\* ------------------------------------------------------------------ claims
\* C1: get_position_in_diff returns the position at the first Added or
\* Context line whose new-file line number equals the target; a target that
\* numbers a Context line resolves to that line, not to absent.
C1_ContextLineResolves ==
    (/\ resolved.called
     /\ ~resolved.raised
     /\ \E i \in LinesNumbered(DiffLines, resolved.target) :
            IsContext(DiffLines[i]))
    => /\ resolved.position # None
       /\ \A i \in LinesNumbered(DiffLines, resolved.target) :
              resolved.index <= i
       /\ resolved.index \in LinesNumbered(DiffLines, resolved.target)

\* C2: the position returned for a matched line is the 1-based count of
\* non-header lines from the start of the file's diff up to that line; the
\* count is never restarted inside the file.
C2_PositionIsOrdinalInFile ==
    (resolved.called /\ resolved.position # None)
    => resolved.position = OrdinalInFile(DiffLines, resolved.index)

\* C3: two distinct target lines of one file's diff that both resolve never
\* resolve to the same position.
C3_Injective ==
    [][(/\ resolved.called
        /\ resolved'.called
        /\ diff_content' = diff_content
        /\ resolved.target # resolved'.target
        /\ resolved.position # None
        /\ resolved'.position # None)
       => resolved.position # resolved'.position]_vars

\* C4: every line number the numbered diff shows resolves, through
\* get_position_in_diff, to a position, and that position is the one of a
\* line shown with that number.
C4_RoundTrip ==
    (/\ resolved.called
     /\ numbered_diff # <<>>
     /\ \E i \in 1..Len(numbered_diff) :
            ShownNumber(numbered_diff[i]) = resolved.target)
    => /\ ~resolved.raised
       /\ resolved.position # None
       /\ resolved.index \in 1..Len(numbered_diff)
       /\ ShownNumber(numbered_diff[resolved.index]) = resolved.target

\* C5: get_position_in_diff never raises: it ends by returning a position
\* or absent, also when a non-header line precedes the first valid header.
C5_NeverRaises ==
    resolved.called => ~resolved.raised

\* C7: within each hunk the numbering restarts from newStart - 1 at the
\* header and gives successive Added and Context lines newStart,
\* newStart + 1, ...; a Removed line and a '@@' line without a +newStart
\* field leave the counter unchanged and are shown without a number.
\* get_position_in_diff, once it has seen a valid header, keeps the same
\* counter.
C7_HunkNumbering ==
    numbered_diff # <<>> =>
    /\ Len(numbered_diff) = Len(DiffLines)
    /\ \A i \in 1..Len(DiffLines) :
          LET line == DiffLines[i]
              before == NumberLoop(DiffLines, i - 1).current_line
              after == NumberLoop(DiffLines, i).current_line
              h == HunkHeaderBefore(DiffLines, i)
          IN  /\ IsValidHeader(line) =>
                    /\ after = SearchPlusDigits(line) - 1
                    /\ numbered_diff[i] = line
              /\ (IsRemoved(line) \/ (IsHeaderLine(line) /\ ~IsValidHeader(line))) =>
                    /\ after = before
                    /\ numbered_diff[i] = line
                    /\ ShownNumber(numbered_diff[i]) = None
              /\ (IsNumberedKind(line) /\ h # 0) =>
                    /\ ShownNumber(numbered_diff[i]) =
                          SearchPlusDigits(DiffLines[h]) - 1
                          + Cardinality({j \in (h + 1)..i :
                                            IsNumberedKind(DiffLines[j])})
                    /\ after = before + 1
                    /\ after = ShownNumber(numbered_diff[i])
              /\ \A st \in {PositionLoop(DiffLines, i, 0)} :
                    (st.has_line /\ ~st.raised) => st.current_line = after

\* a hunk that starts at line 3 and holds a Removed line between two
\* numbered lines, shown as 3 and 4
C7_Witness ==
    /\ numbered_diff # <<>>
    /\ \E h, r, i \in 1..Len(DiffLines) :
          /\ h < r /\ r < i
          /\ DiffLines[h] = HunkHeader3
          /\ IsRemoved(DiffLines[r])
          /\ HunkHeaderBefore(DiffLines, i) = h
          /\ ShownNumber(numbered_diff[i]) = 4

\* C6: a comment reaches the sink only with the position that
\* get_position_in_diff returned for its file and line; a comment whose
\* result is absent is dropped and no request is made for it.
C6_OnlyResolvedSent ==
    /\ \A k \in 1..Len(sink) :
          /\ sink[k].path \in DOMAIN diffs_by_file
          /\ LET r == GetPositionInDiff(diffs_by_file[sink[k].path],
                                        sink[k].line)
             IN  /\ ~r.raised
                 /\ r.position # None
                 /\ sink[k].position = r.position
    /\ \A k \in 1..Len(log) :
          log[k].outcome = "absent" =>
              ~\E j \in 1..Len(sink) :
                   /\ sink[j].path = log[k].comment.filename
                   /\ sink[j].line = log[k].comment.line
    /\ Len(sink) = Cardinality({k \in 1..Len(log) :
                                   log[k].outcome \in {"sent", "sink_error"}})

\* a finished run that dropped a comment on a file whose diff shows a
\* Removed line and no line of the comment's number, and sent another one
C6_Witness ==
    /\ pc = "done"
    /\ Len(sink) > 0
    /\ \E k \in 1..Len(log) :
          LET lines == SplitLines(diffs_by_file[log[k].comment.filename])
          IN  /\ log[k].outcome = "absent"
              /\ \E i \in 1..Len(lines) : IsRemoved(lines[i])
              /\ LinesNumbered(lines, log[k].comment.line) = {}

\* the numbered lines of the numbered diff, in order
NumberedEntries ==
    {i \in 1..Len(numbered_diff) : ShownNumber(numbered_diff[i]) # None}

\* C8 (as stated): the displayed numbers start at 1 for each file and
\* every emitted line, hunk headers included, advances the number by one.
C8_DisplayNumbersFromOne ==
    \A i \in 1..Len(numbered_diff) : ShownNumber(numbered_diff[i]) = i

\* C8 (amended): the displayed numbers are new-file line numbers local to
\* the file.  The first numbered line of a file shows the newStart of the
\* valid hunk header before it, 1 when there is none, whatever the files
\* before it showed; hunk headers and Removed lines are shown without a
\* number; from one numbered line to the next the number advances by
\* exactly one unless a valid hunk header lies between them.
C8_FileLocalNewFileNumbers ==
    numbered_diff # <<>> =>
    /\ Len(numbered_diff) = Len(DiffLines)
    /\ \A i \in 1..Len(numbered_diff) :
          (i \in NumberedEntries) <=> IsNumberedKind(DiffLines[i])
    /\ \A i \in NumberedEntries :
          (\A j \in NumberedEntries : i <= j) =>
              LET h == HunkHeaderBefore(DiffLines, i)
              IN  ShownNumber(numbered_diff[i]) =
                      IF h = 0 THEN 1 ELSE SearchPlusDigits(DiffLines[h])
    /\ \A i, j \in NumberedEntries :
          (/\ i < j
           /\ \A m \in (i + 1)..(j - 1) :
                  /\ m \notin NumberedEntries
                  /\ ~IsValidHeader(DiffLines[m]))
          => ShownNumber(numbered_diff[j]) = ShownNumber(numbered_diff[i]) + 1

\* a second file whose first numbered line shows 1 after a first file
\* whose numbering ended at 3 or more, and a file whose header is shown
\* without a number before a first numbered line 3
C8_Witness ==
    /\ Cardinality(DOMAIN diffs_by_file) = 2
    /\ diff_content = diffs_by_file[FileNames[2]]
    /\ \E i \in NumberedEntries : ShownNumber(numbered_diff[i]) = 1
    /\ LET first == NumberDiff(diffs_by_file[FileNames[1]])
       IN  /\ ShownNumber(first[1]) = None
           /\ ShownNumber(first[Len(first)]) >= 3

\* the concatenation of the chunks in list order
RECURSIVE ConcatAll(_)
ConcatAll(cs) == IF Len(cs) = 0 THEN <<>> ELSE cs[1] \o ConcatAll(Tail(cs))

\* the lines a chunk holds: its pieces without the one after the last break
LinesOfChunk(chunk) ==
    LET pieces == SplitLines(chunk) IN SubSeq(pieces, 1, Len(pieces) - 1)

RECURSIVE LinesOfChunks(_)
LinesOfChunks(cs) ==
    IF Len(cs) = 0 THEN <<>>
    ELSE LinesOfChunk(cs[1]) \o LinesOfChunks(Tail(cs))

\* C9: the chunks, concatenated in list order, reproduce the lines of the
\* text in their order, none lost, duplicated or split across two chunks:
\* the concatenation is the text with a line break after its last line.
C9_ChunksReconstructText ==
    chunks # <<>> =>
    /\ ConcatAll(chunks) = text \o <<NL>>
    /\ \A k \in 1..Len(chunks) :
          chunks[k] = <<>> \/ chunks[k][Len(chunks[k])] = NL
    /\ LinesOfChunks(chunks) = SplitLines(text)

\* a text of three lines or more cut into two chunks or more
C9_Witness ==
    /\ Len(chunks) >= 2
    /\ Len(SplitLines(text)) >= 3
    /\ \E k \in 1..Len(chunks) : Len(LinesOfChunk(chunks[k])) >= 2

\* C10: every chunk has at most max_tokens tokens, except a chunk that is a
\* single line which alone has more than max_tokens tokens.
C10_ChunksWithinLimit ==
    \A k \in 1..Len(chunks) :
        \/ NumTokens(chunks[k]) <= max_tokens
        \/ /\ Len(LinesOfChunk(chunks[k])) = 1
           /\ NumTokens(LinesOfChunk(chunks[k])[1]) > max_tokens

\* C11: split_diff_into_chunks never returns an empty chunk; a line that
\* alone exceeds max_tokens becomes its own chunk and the chunk sealed
\* before it is non-empty or not emitted.
C11_NoEmptyChunk ==
    \A k \in 1..Len(chunks) : chunks[k] # <<>>

\* C17: post_comments processes the comments in the order given and a
\* failure on one comment only skips that comment: when the run ends, every
\* comment has been processed and the run was not aborted.
C17_EveryCommentProcessed ==
    pc \in {"done", "failed"} =>
        /\ pc = "done"
        /\ Len(log) = Len(all_comments)
        /\ \A k \in 1..Len(log) : log[k].comment = all_comments[k]

\* C16: a numbered diff split into k chunks is sent in k requests, one per
\* chunk in chunk order, and the feedback holds one entry per chunk whose
\* response parses.
C16_OneRequestPerChunk ==
    requests # <<>> =>
        /\ Len(requests) = Len(chunks)
        /\ \A k \in 1..Len(requests) :
              /\ requests[k].chunk_index = k
              /\ requests[k].diff_chunk = chunks[k]
        /\ Len(all_feedback) <= Len(requests)

\* the lines of the input text that start with "+"
AddedLinesOfInput ==
    LET lines == SplitLines(call_input.data)
    IN  {lines[i] : i \in {j \in 1..Len(lines) : StartsWith(lines[j], <<"+">>)}}

\* the identifiers of a line: its maximal runs of word characters, as
\* pairs of first and last index
Identifiers(line) ==
    {ab \in (1..Len(line)) \X (1..Len(line)) :
        /\ ab[1] <= ab[2]
        /\ \A j \in ab[1]..ab[2] : line[j] \in WordChars
        /\ (ab[1] = 1 \/ line[ab[1] - 1] \notin WordChars)
        /\ (ab[2] = Len(line) \/ line[ab[2] + 1] \notin WordChars)}

\* an identifier with "(" right behind it
ImmediatelyCalled(line, ab) ==
    ab[2] < Len(line) /\ line[ab[2] + 1] = "("

\* an identifier with "(" behind it, white space allowed in between
CalledAfterSpace(line, ab) ==
    \E m \in ab[2]..(Len(line) - 1) :
        /\ \A j \in (ab[2] + 1)..m : line[j] \in SpaceChars
        /\ line[m + 1] = "("

DecodeByte(b) ==
    CASE b = 43 -> "+" [] b = 102 -> "f" [] b = 40 -> "(" [] OTHER -> "?"

IsValidUtf8(bs) == \A i \in 1..Len(bs) : bs[i] < 128

Decode(bs) == [i \in 1..Len(bs) |-> DecodeByte(bs[i])]

\* C13: get_called_functions takes None, str and bytes without raising;
\* None, empty input and bytes that are not valid UTF-8 give the empty
\* set, other bytes give the result of their decoded text.
C13_AcceptsNoneAndBytes ==
    called_functions.called =>
        /\ ~called_functions.raised
        /\ (\/ call_input.kind = "none"
            \/ call_input.data = <<>>
            \/ (call_input.kind = "bytes" /\ ~IsValidUtf8(call_input.data)))
           => called_functions.names = {}
        /\ (call_input.kind = "bytes" /\ IsValidUtf8(call_input.data)) =>
              called_functions.names =
                  GetCalledFunctions([kind |-> "str",
                                      data |-> Decode(call_input.data)]).names

\* C14: during one run the source tree is walked at most once for each
\* distinct key, however many other keys are looked up in between.
C14_OneWalkPerKey ==
    walks <= looked_up

\* C15: a definition whose token count exceeds FUNCTION_DEF_TOKEN_LIMIT is
\* never part of the returned definitions, and what is returned is whole:
\* every part is a definition of the tree with the name asked for, in a
\* file with the extension asked for, carrying all its tokens.
C15_OversizedOmittedWhole ==
    function_definitions.called =>
       \A k \in 1..Len(function_definitions.parts) :
          LET part == function_definitions.parts[k] IN
          /\ part.tokens <= FUNCTION_DEF_TOKEN_LIMIT
          /\ part.file \in 1..Len(source_tree)
          /\ source_tree[part.file].extension = function_definitions.extension
          /\ part.def \in 1..Len(source_tree[part.file].defs)
          /\ source_tree[part.file].defs[part.def].name
                = function_definitions.name
          /\ source_tree[part.file].defs[part.def].tokens = part.tokens

====
